---- MODULE Spec2Model ----
(***************************************************************************)
(* Model of vector.py: the Vector class (an immutable tuple of numbers     *)
(* held in a Python list) and the degree helpers sin_d / cos_d.            *)
(*                                                                         *)
(* Python lists are objects on a heap and are named by their address, so   *)
(* that aliasing between the caller's list and a Vector's _coords can be   *)
(* told from a copy.  A Python call either returns an object or raises,    *)
(* and both outcomes are values of the model:                              *)
(*    [kind |-> "value", val |-> v]     a number (or a local list) v       *)
(*    [kind |-> "raise", exc |-> e]     exception e propagated             *)
(*    [kind |-> "Vector", coords, n]    a Vector object (_coords, _n)      *)
(*    [kind |-> "list", ref |-> adr]    a plain list object                *)
(*    [kind |-> "float", fn, deg]       math.sin / math.cos of deg degrees *)
(* Coordinates are integers; a quotient is kept as [num, den].             *)
(***************************************************************************)
EXTENDS Integers, Sequences, FiniteSets, TLC

VARIABLES heap, x, op, arg, ret

vars == <<heap, x, op, arg, ret>>

\* ---------------------------------------------------------------- bounds
MaxLen == 3      \* longest list the caller builds
MaxCoord == 1    \* coordinates are drawn from 0..MaxCoord
MaxAlpha == 1    \* scalars are drawn from -1..MaxAlpha
MaxTurns == 1    \* angles span -MaxTurns..MaxTurns full turns around [0, 360)

Coord == 0..MaxCoord
Alpha == (-1)..MaxAlpha
Index == (-(MaxLen + 1))..(MaxLen + 1)
Degs == (-(360 * MaxTurns))..(360 * MaxTurns + 359)
Turns == (-MaxTurns)..MaxTurns

RECURSIVE ListsOfLen(_)
ListsOfLen(k) ==
  IF k = 0 THEN {<<>>}
  ELSE {Append(l, c) : l \in ListsOfLen(k - 1), c \in Coord}

Lists == UNION {ListsOfLen(k) : k \in 0..MaxLen}

\* Whom a binary operation is applied to: the Vector the client holds in x,
\* or Vector(a) built on the spot from the client's list a.
Operands == {"x", "a"}

\* ----------------------------------------------------- Python's values
None == [kind |-> "None"]
Value(v) == [kind |-> "value", val |-> v]
Raise(e) == [kind |-> "raise", exc |-> e]
VectorObj(c, k) == [kind |-> "Vector", coords |-> c, n |-> k]
ListObj(c) == [kind |-> "list", ref |-> c]
Out(h, r) == [heap |-> h, ret |-> r]

\* The heap with the list l stored at address adr (allocated if new).
Store(h, adr, l) ==
  [k \in (DOMAIN h) \cup {adr} |-> IF k = adr THEN l ELSE h[k]]

\* Reference counting frees every list nothing refers to any more: what
\* stays is the client's list a and the lists the objects in `objs` hold.
Refs(objs) ==
  {"a"} \cup {o.coords : o \in {p \in objs : p.kind = "Vector"}}
        \cup {o.ref : o \in {p \in objs : p.kind = "list"}}

Collect(h, objs) == [k \in (DOMAIN h) \cap Refs(objs) |-> h[k]]

\* l[i] of a list l: 0-based, a negative i counts from the end, and an index
\* outside [-len, len) raises IndexError.
ListGetItem(l, i) ==
  IF 0 <= i /\ i < Len(l) THEN Value(l[i + 1])
  ELSE IF i < 0 /\ -Len(l) <= i THEN Value(l[Len(l) + i + 1])
  ELSE Raise("IndexError")

\* l[i] = v on a list l: assigns in place within [-len, len), never grows
\* the list, and raises IndexError outside.
ListSetItem(l, i, v) ==
  IF 0 <= i /\ i < Len(l) THEN Value([l EXCEPT ![i + 1] = v])
  ELSE IF i < 0 /\ -Len(l) <= i THEN Value([l EXCEPT ![Len(l) + i + 1] = v])
  ELSE Raise("IndexError")

\* a[:] : a new list with the same items.
SliceCopy(l) == [k \in 1..Len(l) |-> l[k]]

\* ------------------------------------------------------------- Vector
\* Vector(a): _coords is a copy of the list at address a, stored at dst.
InitAlias(h, a, dst) == Out(h, VectorObj(a, Len(h[a])))

__init__(h, a, dst) ==
  Out(Store(h, dst, SliceCopy(h[a])), VectorObj(dst, Len(h[a])))

\* self[i]
GetItemStrict(h, self, i) ==
  IF 0 <= i /\ i < Len(h[self.coords]) THEN Value(h[self.coords][i + 1])
  ELSE Raise("IndexError")

__getitem__(h, self, i) == ListGetItem(h[self.coords], i)

\* len(self)
__len__(self) == Value(self.n)

\* self + other: result starts as the empty list and each pass of the loop
\* assigns result[i], which raises IndexError on the first pass.
RECURSIVE AddLoop(_, _, _, _, _)
AddLoop(h, self, other, result, i) ==
  IF i >= self.n THEN Value(result)
  ELSE LET s == ListGetItem(h[self.coords], i)
           o == ListGetItem(h[other.coords], i)
       IN IF s.kind = "raise" THEN s
          ELSE IF o.kind = "raise" THEN o
          ELSE LET st == ListSetItem(result, i, s.val + o.val)
               IN IF st.kind = "raise" THEN st
                  ELSE AddLoop(h, self, other, st.val, i + 1)

__add__(h, self, other) ==
  LET r == AddLoop(h, self, other, <<>>, 0)
  IN IF r.kind = "raise" THEN Out(h, r)
     ELSE __init__(Store(h, "result", r.val), "result", "r")

\* alpha * c for a scalar alpha = num / den and a coordinate c.
Mul(alpha, c) ==
  IF alpha.den = 1 THEN alpha.num * c
  ELSE [num |-> alpha.num * c, den |-> alpha.den]

\* self.scale(alpha): the same loop as __add__, with alpha * self._coords[i].
RECURSIVE ScaleLoop(_, _, _, _, _)
ScaleLoop(h, self, alpha, result, i) ==
  IF i >= self.n THEN Value(result)
  ELSE LET s == ListGetItem(h[self.coords], i)
       IN IF s.kind = "raise" THEN s
          ELSE LET st == ListSetItem(result, i, Mul(alpha, s.val))
               IN IF st.kind = "raise" THEN st
                  ELSE ScaleLoop(h, self, alpha, st.val, i + 1)

scale(h, self, alpha) ==
  LET r == ScaleLoop(h, self, alpha, <<>>, 0)
  IN IF r.kind = "raise" THEN Out(h, r)
     ELSE __init__(Store(h, "result", r.val), "result", "r")

\* self.dot(other): result = 0, then result += self._coords[i] * other._coords[i]
\* for i in range(self._n).  An object that is no Vector has neither _n nor
\* _coords: reading either raises AttributeError.
RECURSIVE DotLoop(_, _, _, _, _)
DotLoop(h, self, other, result, i) ==
  IF i >= self.n THEN Value(result)
  ELSE LET s == ListGetItem(h[self.coords], i)
       IN IF s.kind = "raise" THEN s
          ELSE IF other.kind # "Vector" THEN Raise("AttributeError")
          ELSE LET o == ListGetItem(h[other.coords], i)
               IN IF o.kind = "raise" THEN o
                  ELSE DotLoop(h, self, other, result + s.val * o.val, i + 1)

RECURSIVE DotLoopSum(_, _, _, _, _)
DotLoopSum(h, self, other, result, i) ==
  IF i >= self.n THEN Value(result)
  ELSE LET s == ListGetItem(h[self.coords], i)
           o == ListGetItem(h[other.coords], i)
       IN IF s.kind = "raise" THEN s
          ELSE IF o.kind = "raise" THEN o
          ELSE DotLoopSum(h, self, other, result + s.val + o.val, i + 1)

\* dot with the sum in place of the product.
DotSum(h, self, other) ==
  IF self.kind # "Vector" THEN Raise("AttributeError")
  ELSE DotLoopSum(h, self, other, 0, 0)

\* dot that refuses operands of unequal dimension.
DotChecked(h, self, other) ==
  IF self.kind # "Vector" THEN Raise("AttributeError")
  ELSE IF other.kind = "Vector" /\ other.n # self.n THEN Raise("ValueError")
  ELSE DotLoop(h, self, other, 0, 0)

dot(h, self, other) ==
  IF self.kind # "Vector" THEN Raise("AttributeError")
  ELSE DotLoop(h, self, other, 0, 0)

\* The first exception among the results rs, evaluated left to right.
RECURSIVE FirstRaise(_)
FirstRaise(rs) ==
  IF rs = <<>> THEN None
  ELSE IF Head(rs).kind = "raise" THEN Head(rs)
  ELSE FirstRaise(Tail(rs))

\* The branch of cross for self._n == 3: the three assignments, whose
\* subscripts are evaluated left to right.
Cross3(h, self, other) ==
  LET s0 == ListGetItem(h[self.coords], 0)
      s1 == ListGetItem(h[self.coords], 1)
      s2 == ListGetItem(h[self.coords], 2)
      o0 == ListGetItem(h[other.coords], 0)
      o1 == ListGetItem(h[other.coords], 1)
      o2 == ListGetItem(h[other.coords], 2)
      e == FirstRaise(<<s1, o2, s2, o1, s2, o0, s0, o2, s0, o1, s1, o0>>)
  IN IF e.kind = "raise" THEN Out(h, e)
     ELSE Out(Store(h, "r", << s1.val * o2.val - s2.val * o1.val,
                               s2.val * o0.val - s0.val * o2.val,
                               s0.val * o1.val - s1.val * o0.val >>),
              ListObj("r"))

\* cross without the else branch: the [0, 0, 0] buffer is returned as it is.
CrossKeepBuffer(h, self, other) ==
  IF self.n = 3 THEN Cross3(h, self, other)
  ELSE Out(Store(h, "r", <<0, 0, 0>>), ListObj("r"))

\* self.cross(other): a plain list, not a Vector; [] unless self._n == 3.
cross(h, self, other) ==
  IF self.n = 3 THEN Cross3(h, self, other)
  ELSE Out(Store(h, "r", <<>>), ListObj("r"))

\* math.sqrt(d) on the integers: the root rounded down, which is 0 exactly
\* when d is 0; a negative d raises ValueError.
Sqrt(d) ==
  IF d < 0 THEN Raise("ValueError")
  ELSE Value(CHOOSE r \in 0..d : r * r <= d /\ (r + 1) * (r + 1) > d)

\* abs(self)
__abs__(h, self) ==
  LET d == dot(h, self, self)
  IN IF d.kind = "raise" THEN d ELSE Sqrt(d.val)

\* a / b on floats: Python raises ZeroDivisionError for b == 0.
TrueDivIEEE(a, b) == Value([num |-> a, den |-> b])

TrueDiv(a, b) ==
  IF b = 0 THEN Raise("ZeroDivisionError") ELSE Value([num |-> a, den |-> b])

\* self.direction(): the quotient is evaluated before scale is called.
direction(h, self) ==
  LET m == __abs__(h, self)
  IN IF m.kind = "raise" THEN Out(h, m)
     ELSE LET q == TrueDiv(1, m.val)
          IN IF q.kind = "raise" THEN Out(h, q)
             ELSE scale(h, self, q.val)

\* ------------------------------------------------------ sin_d, cos_d
\* a % b of Python for b > 0: the remainder of the floored quotient.
CMod(a, b) == IF a >= 0 THEN a % b ELSE -((-a) % b)

PyMod(a, b) == a - b * (a \div b)

\* math.sin / math.cos of math.radians(d): a float the model leaves symbolic.
Fallback(f, d) == [kind |-> "float", fn |-> f, deg |-> d]

sin_d(deg) ==
  LET d == PyMod(deg, 360)
  IN IF d = 90 THEN Value(1)
     ELSE IF d = 180 THEN Value(0)
     ELSE IF d = 270 THEN Value(-1)
     ELSE Fallback("sin", d)

cos_d(deg) ==
  LET d == PyMod(deg, 360)
  IN IF d = 90 THEN Value(0)
     ELSE IF d = 180 THEN Value(-1)
     ELSE IF d = 270 THEN Value(0)
     ELSE Fallback("cos", d)

\* ------------------------------------------------------------ client
\* The operand named sel: the client's Vector x, or Vector(a) built at dst.
Operand(h, sel, dst) ==
  IF sel = "x" THEN Out(h, x) ELSE __init__(h, "a", dst)

Built(s, o) == ("x" \in {s, o}) => x.kind = "Vector"

Init ==
  /\ heap \in {Store(<<>>, "a", l) : l \in Lists}
  /\ x = None
  /\ op = "idle"
  /\ arg = None
  /\ ret = None

\* x = Vector(a)
Construct ==
  LET o == __init__(heap, "a", "x") IN
  /\ op = "idle"
  /\ x' = o.ret
  /\ heap' = Collect(o.heap, {x'})
  /\ op' = "idle"
  /\ arg' = None
  /\ ret' = None

\* The client's own list, after construction or before: a[i] = v
SetItem(i, v) ==
  /\ op = "idle"
  /\ i < Len(heap["a"])
  /\ LET st == ListSetItem(heap["a"], i, v) IN
       heap' = Collect(Store(heap, "a", st.val), {x})
  /\ op' = "idle"
  /\ arg' = None
  /\ ret' = None
  /\ UNCHANGED x

\* a.append(v)
AppendItem(v) ==
  /\ op = "idle"
  /\ Len(heap["a"]) < MaxLen
  /\ heap' = Collect(Store(heap, "a", Append(heap["a"], v)), {x})
  /\ op' = "idle"
  /\ arg' = None
  /\ ret' = None
  /\ UNCHANGED x

\* a.pop()
PopItem ==
  /\ op = "idle"
  /\ Len(heap["a"]) > 0
  /\ heap' = Collect(Store(heap, "a", SubSeq(heap["a"], 1, Len(heap["a"]) - 1)), {x})
  /\ op' = "idle"
  /\ arg' = None
  /\ ret' = None
  /\ UNCHANGED x

\* x[i]
GetItem(i) ==
  /\ op = "idle"
  /\ x.kind = "Vector"
  /\ ret' = __getitem__(heap, x, i)
  /\ heap' = Collect(heap, {x})
  /\ op' = "getitem"
  /\ arg' = i
  /\ UNCHANGED x

\* len(x)
LenCall ==
  /\ op = "idle"
  /\ x.kind = "Vector"
  /\ ret' = __len__(x)
  /\ heap' = Collect(heap, {x})
  /\ op' = "len"
  /\ arg' = None
  /\ UNCHANGED x

\* s + o
Add(s, o) ==
  /\ op = "idle"
  /\ Built(s, o)
  /\ LET p == Operand(heap, s, "self")
         q == Operand(p.heap, o, "other")
         r == __add__(q.heap, p.ret, q.ret)
     IN /\ ret' = r.ret
        /\ heap' = Collect(r.heap, {x, r.ret})
  /\ op' = "add"
  /\ arg' = <<s, o>>
  /\ UNCHANGED x

\* x.scale(alpha)
Scale(alpha) ==
  /\ op = "idle"
  /\ x.kind = "Vector"
  /\ LET r == scale(heap, x, [num |-> alpha, den |-> 1])
     IN /\ ret' = r.ret
        /\ heap' = Collect(r.heap, {x, r.ret})
  /\ op' = "scale"
  /\ arg' = alpha
  /\ UNCHANGED x

\* s.dot(o)
Dot(s, o) ==
  /\ op = "idle"
  /\ Built(s, o)
  /\ LET p == Operand(heap, s, "self")
         q == Operand(p.heap, o, "other")
     IN /\ ret' = dot(q.heap, p.ret, q.ret)
        /\ heap' = Collect(q.heap, {x})
  /\ op' = "dot"
  /\ arg' = <<s, o>>
  /\ UNCHANGED x

\* s.cross(o)
Cross(s, o) ==
  /\ op = "idle"
  /\ Built(s, o)
  /\ LET p == Operand(heap, s, "self")
         q == Operand(p.heap, o, "other")
         r == cross(q.heap, p.ret, q.ret)
     IN /\ ret' = r.ret
        /\ heap' = Collect(r.heap, {x, r.ret})
  /\ op' = "cross"
  /\ arg' = <<s, o>>
  /\ UNCHANGED x

\* c = s.cross(o), then c.dot(s) and c.dot(o)
CrossDot(s, o) ==
  /\ op = "idle"
  /\ Built(s, o)
  /\ LET p == Operand(heap, s, "self")
         q == Operand(p.heap, o, "other")
         c == cross(q.heap, p.ret, q.ret)
         d1 == dot(c.heap, c.ret, p.ret)
         d2 == dot(c.heap, c.ret, q.ret)
     IN /\ ret' = IF c.ret.kind = "raise" THEN c.ret
                  ELSE IF d1.kind = "raise" THEN d1
                  ELSE IF d2.kind = "raise" THEN d2
                  ELSE Value(<<d1.val, d2.val>>)
        /\ heap' = Collect(c.heap, {x})
  /\ op' = "cross_dot"
  /\ arg' = <<s, o>>
  /\ UNCHANGED x

\* abs(x)
Abs ==
  /\ op = "idle"
  /\ x.kind = "Vector"
  /\ ret' = __abs__(heap, x)
  /\ heap' = Collect(heap, {x})
  /\ op' = "abs"
  /\ arg' = None
  /\ UNCHANGED x

\* x.direction()
Direction ==
  /\ op = "idle"
  /\ x.kind = "Vector"
  /\ LET r == direction(heap, x)
     IN /\ ret' = r.ret
        /\ heap' = Collect(r.heap, {x, r.ret})
  /\ op' = "direction"
  /\ arg' = None
  /\ UNCHANGED x

\* The client is done with the result of the last call and drops it.
Discard ==
  /\ op # "idle"
  /\ op' = "idle"
  /\ arg' = None
  /\ ret' = None
  /\ heap' = Collect(heap, {x})
  /\ UNCHANGED x

Next ==
  \/ Construct
  \/ \E i \in 0..(MaxLen - 1), v \in Coord : SetItem(i, v)
  \/ \E v \in Coord : AppendItem(v)
  \/ PopItem
  \/ \E i \in Index : GetItem(i)
  \/ LenCall
  \/ \E s \in Operands, o \in Operands : Add(s, o)
  \/ \E alpha \in Alpha : Scale(alpha)
  \/ \E s \in Operands, o \in Operands : Dot(s, o)
  \/ \E s \in Operands, o \in Operands : Cross(s, o)
  \/ \E s \in Operands, o \in Operands : CrossDot(s, o)
  \/ Abs
  \/ Direction
  \/ Discard

Spec == Init /\ [][Next]_vars

\* The degree helpers take no Vector: their inputs are the angles of Degs.
InitTrig ==
  /\ heap = Store(<<>>, "a", <<>>)
  /\ x = None
  /\ op = "idle"
  /\ arg = None
  /\ ret = None

SinD(deg) ==
  /\ op = "idle"
  /\ ret' = sin_d(deg)
  /\ op' = "sin_d"
  /\ arg' = deg
  /\ UNCHANGED <<heap, x>>

CosD(deg) ==
  /\ op = "idle"
  /\ ret' = cos_d(deg)
  /\ op' = "cos_d"
  /\ arg' = deg
  /\ UNCHANGED <<heap, x>>

NextTrig ==
  \/ \E deg \in Degs : SinD(deg)
  \/ \E deg \in Degs : CosD(deg)
  \/ Discard

SpecTrig == InitTrig /\ [][NextTrig]_vars

\* ------------------------------------------------------------ claims
\* The coordinates of the operand named sel in the current state.
CoordsIn(h, xv, sel) == IF sel = "x" THEN h[xv.coords] ELSE h["a"]

OperandCoords(sel) == CoordsIn(heap, x, sel)

\* u[1]*v[1] + ... + u[k]*v[k]
RECURSIVE SumTo(_, _, _)
SumTo(u, v, k) == IF k = 0 THEN 0 ELSE SumTo(u, v, k - 1) + u[k] * v[k]

AllZero(u) == \A k \in 1..Len(u) : u[k] = 0

\* dot of two fresh Vectors with coordinates u and v.
DotOf(u, v) ==
  dot([self |-> u, other |-> v],
      VectorObj("self", Len(u)), VectorObj("other", Len(v)))

\* C1: for Vectors of equal dimension n (n >= 1 included), add returns a
\* new Vector of dimension n whose i-th coordinate is x[i] + y[i].
C1_AddReturnsSum ==
  (op = "add" /\ Len(OperandCoords(arg[1])) = Len(OperandCoords(arg[2])))
    => /\ ret.kind = "Vector"
       /\ ret.n = Len(OperandCoords(arg[1]))
       /\ \A k \in 1..ret.n :
            heap[ret.coords][k] =
              OperandCoords(arg[1])[k] + OperandCoords(arg[2])[k]

\* C2: scale(alpha) never fails and returns a new Vector of the same
\* dimension whose i-th coordinate is alpha * x[i].
C2_ScaleReturnsProduct ==
  op = "scale"
    => /\ ret.kind = "Vector"
       /\ ret.n = x.n
       /\ \A k \in 1..ret.n : heap[ret.coords][k] = arg * heap[x.coords][k]

\* C3: for 3-dimensional x and y, c = cross(x, y) is a Vector, and dot(c, x)
\* and dot(c, y) are evaluated by Vector's dot and are both 0.
C3_CrossOrthogonal ==
  (/\ op = "cross_dot"
   /\ Len(OperandCoords(arg[1])) = 3
   /\ Len(OperandCoords(arg[2])) = 3)
    => /\ ret.kind = "value"
       /\ ret.val = <<0, 0>>

\* C4: cross on a Vector whose dimension is not 3 raises nothing and
\* returns an empty result, whatever the dimension of the other Vector.
C4_CrossNon3DEmpty ==
  (op = "cross" /\ Len(OperandCoords(arg[1])) # 3)
    => /\ ret.kind = "list"
       /\ heap[ret.ref] = <<>>

C4_Witness ==
  /\ op = "cross"
  /\ Len(OperandCoords(arg[1])) = 2
  /\ Len(OperandCoords(arg[2])) = 3
  /\ ret.kind = "list"

\* C5 as stated: coordinate(i) returns x[i] for 0 <= i < n and fails for
\* every other i, every negative i included.
C5_OutsideRangeFails ==
  op = "getitem"
    => IF 0 <= arg /\ arg < x.n
       THEN ret.kind = "value" /\ ret.val = heap[x.coords][arg + 1]
       ELSE ret.kind = "raise"

\* C5 amended: coordinate(i) returns x[i] for 0 <= i < n, returns x[n + i]
\* for -n <= i < 0, and fails with IndexError for i >= n and for i < -n.
C5_GetItemWraps ==
  op = "getitem"
    => IF 0 <= arg /\ arg < x.n
       THEN ret.kind = "value" /\ ret.val = heap[x.coords][arg + 1]
       ELSE IF -x.n <= arg /\ arg < 0
       THEN ret.kind = "value" /\ ret.val = heap[x.coords][x.n + arg + 1]
       ELSE ret.kind = "raise" /\ ret.exc = "IndexError"

C5_Witness ==
  /\ op = "getitem"
  /\ x.n = 2
  /\ arg = -1
  /\ ret.kind = "value"

\* C6: once v = Vector(a) is built, a step that changes the caller's list a
\* (overwrite, append, removal) changes neither a coordinate v reports nor
\* its dimension.
C6_CopyIsolating ==
  [][(x.kind = "Vector" /\ x' = x /\ heap'["a"] # heap["a"])
       => /\ __len__(x') = __len__(x)
          /\ \A i \in Index :
               __getitem__(heap', x', i) = __getitem__(heap, x, i)]_vars

C6_Witness ==
  /\ x.kind = "Vector"
  /\ heap["a"] # heap[x.coords]
  /\ Len(heap["a"]) = x.n
  /\ op = "getitem"
  /\ ret.kind = "value"

\* C7 as stated: direction() on a Vector of magnitude 0 raises nothing and
\* returns a result of the same dimension.
C7_DirectionZeroReturns ==
  (op = "direction" /\ AllZero(heap[x.coords]))
    => /\ ret.kind = "Vector"
       /\ ret.n = x.n

\* C7 amended: direction() on a Vector of magnitude 0 (all-zero or of
\* length 0) raises ZeroDivisionError at 1.0 / magnitude and returns nothing.
C7_DirectionZeroRaises ==
  (op = "direction" /\ AllZero(heap[x.coords]))
    => /\ ret.kind = "raise"
       /\ ret.exc = "ZeroDivisionError"

C7_Witness ==
  /\ op = "direction"
  /\ heap[x.coords] = <<0, 0>>
  /\ ret.kind = "raise"

\* C8: for every integer k, sin_d is 1, 0, -1 and cos_d is 0, -1, 0 at
\* 90 + 360k, 180 + 360k, 270 + 360k, each from the right-angle branch and
\* never from the radian fallback; and sin_d(450) = sin_d(90).
C8_RightAngles ==
  /\ op = "sin_d" =>
       \A k \in Turns :
         /\ arg = 90 + 360 * k => ret.kind = "value" /\ ret.val = 1
         /\ arg = 180 + 360 * k => ret.kind = "value" /\ ret.val = 0
         /\ arg = 270 + 360 * k => ret.kind = "value" /\ ret.val = -1
  /\ op = "cos_d" =>
       \A k \in Turns :
         /\ arg = 90 + 360 * k => ret.kind = "value" /\ ret.val = 0
         /\ arg = 180 + 360 * k => ret.kind = "value" /\ ret.val = -1
         /\ arg = 270 + 360 * k => ret.kind = "value" /\ ret.val = 0
  /\ sin_d(450) = sin_d(90)

C8_Witness ==
  /\ op = "sin_d"
  /\ arg = -270
  /\ ret.kind = "value"
  /\ ret.val = 1

\* C9: for Vectors of equal dimension n, dot returns the sum of x[i] * y[i]
\* over 0 <= i < n, which is 0 for n = 0 and 25 for [1,2,3,4] . [5,2,4,1],
\* and the call leaves the coordinates of both operands as they were.
C9_DotIsSumOfProducts ==
  [][op' = "dot" =>
       LET u == CoordsIn(heap', x', arg'[1])
           v == CoordsIn(heap', x', arg'[2])
       IN /\ Len(u) = Len(v) =>
               /\ ret'.kind = "value"
               /\ ret'.val = SumTo(u, v, Len(u))
               /\ Len(u) = 0 => ret'.val = 0
          /\ u = CoordsIn(heap, x, arg'[1])
          /\ v = CoordsIn(heap, x, arg'[2])
          /\ DotOf(<<1, 2, 3, 4>>, <<5, 2, 4, 1>>) = Value(25)]_vars

C9_Witness ==
  /\ op = "dot"
  /\ OperandCoords(arg[1]) = <<1, 1, 1>>
  /\ OperandCoords(arg[2]) = <<1, 0, 1>>
  /\ ret.kind = "value"
  /\ ret.val = 2

\* C10: on Vectors of unequal dimension dot is unchecked: with a longer
\* other it returns the sum of products over the first self.n coordinates,
\* with a shorter other it fails with IndexError, so exactly one of
\* dot(x, y) and dot(y, x) returns a value.
C10_DotMismatch ==
  (op = "dot" /\ Len(OperandCoords(arg[1])) # Len(OperandCoords(arg[2])))
    => LET u == OperandCoords(arg[1])
           v == OperandCoords(arg[2])
       IN /\ Len(v) > Len(u) =>
               ret.kind = "value" /\ ret.val = SumTo(u, v, Len(u))
          /\ Len(v) < Len(u) =>
               ret.kind = "raise" /\ ret.exc = "IndexError"
          /\ (DotOf(u, v).kind = "value") # (DotOf(v, u).kind = "value")

C10_Witness ==
  /\ op = "dot"
  /\ Len(OperandCoords(arg[1])) = 1
  /\ Len(OperandCoords(arg[2])) = 3
  /\ ret.kind = "value"
====
